---------------------------- MODULE Spec2Model ----------------------------
(***************************************************************************)
(* BioinfoAgent (src/agenttest.py): query classification, the eight source *)
(* clients, the collection orchestrator collect_all_data, the summarizer   *)
(* ai_summary and the entry point run.                                     *)
(*                                                                         *)
(* A Python str is a sequence of one-character tokens.  The non-ASCII       *)
(* characters U+00DF (sharp s) and U+1E9E (capital sharp s) are written as  *)
(* the tokens "U+00DF" and "U+1E9E"; str.lower and str.upper follow the     *)
(* Unicode case mappings CPython applies to them.                           *)
(*                                                                         *)
(* An HTTP exchange is a record [kind, status, body]: kind is "conn_error"   *)
(* or "timeout" when requests.get raises, "http" when a response arrives;   *)
(* status is the status code of the final response (0 when there is none);  *)
(* body is the shape of the payload as far as the client inspects it.       *)
(* A Python value a client returns is a record                              *)
(* [v, items]: v is "None", "dict", "list", "str" or "num", items its        *)
(* entries or characters (for a number or boolean: empty when it is falsy). *)
(***************************************************************************)
EXTENDS Integers, Sequences, FiniteSets, TLC

VARIABLES
    pc,               \* position of the running call: "idle" or the next client
    raw,              \* the argument of the running (or last) run(query)
    GOOGLE_API,       \* module constant read from the environment at import
    self_query,       \* self.query
    self_query_type,  \* self.query_type
    self_collected,   \* self.collected_data: the heap slot of the dict it names
    heap,             \* heap slot -> aggregate dict living there
    ensembl_gene,     \* local of collect_all_data: the gene lookup's result
    returned,         \* what each client returned in the running invocation
    last_http,        \* the HTTP exchanges of the client that ran last
    last_request,     \* identifier (query, id or region) the last client sent
    result,           \* outcome of the last finished run: payload or raise
    held,             \* heap slot of an aggregate the caller kept, 0 if none
    held_snapshot     \* that aggregate as it was when it was returned

vars == <<pc, raw, GOOGLE_API, self_query, self_query_type, self_collected,
          heap, ensembl_gene, returned, last_http, last_request, result,
          held, held_snapshot>>

-----------------------------------------------------------------------------
(* Bounds of the exploration *)

MaxLen == 3

MaxFeatures == 12

(* Program constants *)

OverlapLimit == 10

SampleLimit == 10

-----------------------------------------------------------------------------
(* Python str operations, on sequences of character tokens *)

Alphabet == {"r", "R", "s", "S", "1", " ", "U+00DF", "U+1E9E"}

Strings == UNION {[1..k -> Alphabet] : k \in 0..MaxLen}

SampleQueries ==
    { <<" ", "R", "S", "1">>,
      <<"r", "s", "1", "r", "s">>,
      <<"B", "1", " ">> }

Whitespace == {" "}

\* str.lower() of one character
lower_char(c) ==
    CASE c = "R" -> "r"
      [] c = "S" -> "s"
      [] c = "B" -> "b"
      [] c = "U+1E9E" -> "U+00DF"
      [] OTHER -> c

\* str.upper() of one character: U+00DF upper-cases to the two characters SS
upper_char(c) ==
    CASE c = "r" -> <<"R">>
      [] c = "s" -> <<"S">>
      [] c = "b" -> <<"B">>
      [] c = "U+00DF" -> <<"S", "S">>
      [] OTHER -> <<c>>

lower(s) == [i \in 1..Len(s) |-> lower_char(s[i])]

RECURSIVE upper(_)
upper(s) == IF s = <<>> THEN <<>> ELSE upper_char(Head(s)) \o upper(Tail(s))

RECURSIVE lstrip(_)
lstrip(s) ==
    IF s # <<>> /\ Head(s) \in Whitespace THEN lstrip(Tail(s)) ELSE s

RECURSIVE rstrip(_)
rstrip(s) ==
    IF s # <<>> /\ s[Len(s)] \in Whitespace
    THEN rstrip(SubSeq(s, 1, Len(s) - 1))
    ELSE s

strip(s) == rstrip(lstrip(s))

startswith(s, p) == Len(s) >= Len(p) /\ SubSeq(s, 1, Len(p)) = p

\* s.replace(old, ""): every non-overlapping occurrence, left to right
RECURSIVE replace_all(_, _)
replace_all(s, old) ==
    IF s = <<>> THEN <<>>
    ELSE IF startswith(s, old)
         THEN replace_all(SubSeq(s, Len(old) + 1, Len(s)), old)
         ELSE <<Head(s)>> \o replace_all(Tail(s), old)

\* list[:n]
slice_to(l, n) == SubSeq(l, 1, IF Len(l) < n THEN Len(l) ELSE n)

-----------------------------------------------------------------------------
(* Python values and HTTP exchanges *)

NONE == [v |-> "None", items |-> <<>>]

NoString == <<"<None>">>

\* bool(x) of a client's return value
Truthy(x) == x.v # "None" /\ x.items # <<>>

Iota(n) == [i \in 1..n |-> i]

NoBody == [t |-> "none", items |-> <<>>]

\* requests.get raising: no connection, or a timeout (collect_myvariant passes
\* no timeout of its own, so for it only the connection attempt can time out)
TransportErrors ==
    { [kind |-> "conn_error", status |-> 0, body |-> NoBody],
      [kind |-> "timeout", status |-> 0, body |-> NoBody] }

\* status codes of a final response that can carry a body: success, a
\* redirection requests does not follow (300 Multiple Choices without a
\* Location header), a client error
Statuses == {200, 300, 404}

Http(bodies) == [kind : {"http"}, status : Statuses, body : bodies]

\* the status is 2xx
Success(resp) == resp.status >= 200 /\ resp.status < 300

\* response.raise_for_status() raises HTTPError: a 4xx or 5xx status only
raise_for_status(resp) == resp.status >= 400 /\ resp.status < 600

\* payload shapes every endpoint can answer with: text that is no JSON, null,
\* an object without the keys the clients look up (empty or not, such as an
\* error report), a JSON string (items are its characters), a number or
\* boolean (falsy when items is empty)
CommonBodies ==
    { [t |-> "nojson", items |-> <<>>],
      [t |-> "null", items |-> <<>>],
      [t |-> "obj", items |-> <<>>],
      [t |-> "obj", items |-> <<1>>],
      [t |-> "str", items |-> <<>>],
      [t |-> "str", items |-> <<1>>],
      [t |-> "num", items |-> <<>>],
      [t |-> "num", items |-> <<1>>] }

ListBodies(counts) == { [t |-> "list", items |-> Iota(n)] : n \in counts }

StrBodies(counts) == { [t |-> "str", items |-> Iota(n)] : n \in counts }

FeatureCounts == {0, 1, OverlapLimit, OverlapLimit + 1, MaxFeatures}

\* raised by requests.get, by raise_for_status (when called) or by json()
Raises(resp, checks_status) ==
    \/ resp.kind # "http"
    \/ checks_status /\ raise_for_status(resp)
    \/ resp.body.t = "nojson"

\* response.json() of a decodable body
Json(body) ==
    CASE body.t = "null" -> NONE
      [] body.t = "list" -> [v |-> "list", items |-> body.items]
      [] body.t = "obj" -> [v |-> "dict", items |-> body.items]
      [] body.t = "str" -> [v |-> "str", items |-> body.items]
      [] body.t = "num" -> [v |-> "num", items |-> body.items]
      [] OTHER -> [v |-> "dict", items |-> <<1>>]


-----------------------------------------------------------------------------
(* Query Classifier *)

\* variant: the query is not trimmed before the prefix test
classify_input_untrimmed(query) ==
    IF startswith(upper(query), <<"R", "S">>) THEN "snp" ELSE "gene"

classify_input(query) ==
    IF startswith(upper(strip(query)), <<"R", "S">>) THEN "snp" ELSE "gene"

-----------------------------------------------------------------------------
(* Source Clients: the value each returns for its argument and the HTTP     *)
(* exchange(s) it gets.  Every except-branch returns None.                  *)

MyVariantResponses == TransportErrors \cup Http(CommonBodies)

\* variant: the except branch hands back an error record instead of None
collect_myvariant_error_record(query, query_type, resp) ==
    IF Raises(resp, FALSE) THEN [v |-> "dict", items |-> <<1>>]
    ELSE Json(resp.body)

\* no raise_for_status: the body of any response that decodes is returned
collect_myvariant(query, query_type, resp) ==
    IF Raises(resp, FALSE) THEN NONE ELSE Json(resp.body)

\* a lookup record: its entries are seq_region_name, start and end
LookupBody == [t |-> "obj", items |-> <<17, 1, 9>>]

EnsemblGeneResponses ==
    TransportErrors \cup Http(CommonBodies \cup ListBodies({1}) \cup {LookupBody})

collect_ensembl_gene(gene, resp) ==
    IF Raises(resp, TRUE) THEN NONE ELSE Json(resp.body)

EnsemblVariantsResponses ==
    TransportErrors
        \cup Http(CommonBodies \cup ListBodies(FeatureCounts)
                                \cup StrBodies({MaxFeatures}))

\* f"{seq}:{start}-{end}" of the three gene_data.get(...): None for a key the
\* record lacks
overlap_region(gene_data) ==
    IF Len(gene_data.items) = 3
    THEN <<ToString(gene_data.items[1]), ":", ToString(gene_data.items[2]),
           "-", ToString(gene_data.items[3])>>
    ELSE <<"None", ":", "None", "-", "None">>

\* gene_data.get(...) raises on a value that is no dict, before any request
ensembl_variants_requests(gene_data) == Truthy(gene_data) /\ gene_data.v = "dict"

\* variant: the overlap response is returned whole
collect_ensembl_variants_uncapped(gene_data, resp) ==
    IF ~Truthy(gene_data) THEN NONE
    ELSE IF gene_data.v # "dict" THEN NONE
    ELSE IF Raises(resp, TRUE) THEN NONE
    ELSE IF Json(resp.body).v \notin {"list", "str"} THEN NONE
    ELSE [v |-> Json(resp.body).v, items |-> Json(resp.body).items]

\* response.json()[:10]: a list or a str is sliced, any other value raises
collect_ensembl_variants(gene_data, resp) ==
    IF ~Truthy(gene_data) THEN NONE
    ELSE IF gene_data.v # "dict" THEN NONE
    ELSE IF Raises(resp, TRUE) THEN NONE
    ELSE IF Json(resp.body).v \notin {"list", "str"} THEN NONE
    ELSE [v |-> Json(resp.body).v,
          items |-> slice_to(Json(resp.body).items, OverlapLimit)]

EnsemblVepResponses == TransportErrors \cup Http(CommonBodies \cup ListBodies({0, 1}))

collect_ensembl_vep(snp_id, resp) ==
    IF Raises(resp, TRUE) THEN NONE ELSE Json(resp.body)

\* data[3] of a search response as the client reads it: one number per row,
\* its magnitude the number of columns, negative when the first column is the
\* queried id
Tables == { <<>>, <<-5>>, <<-4>>, <<-3>>, <<-1>>, <<4>>, <<4, -5>>, <<0, -5>> }

\* "table": an array of four or more elements, items is its data[3]; a list
\* body is an array of fewer than four elements
ClinicalTablesBodies ==
    CommonBodies \cup ListBodies({1})
                 \cup { [t |-> "table", items |-> rows] : rows \in Tables }

ClinicalTablesResponses == TransportErrors \cup Http(ClinicalTablesBodies)

\* the loop over data[3]: row[0] raises on an empty row, row[3] on a matching
\* row of fewer than four columns
RECURSIVE scan_table(_)
scan_table(rows) ==
    IF rows = <<>> THEN NONE
    ELSE IF Head(rows) = 0 THEN NONE
    ELSE IF Head(rows) < 0
         THEN IF -Head(rows) < 4 THEN NONE ELSE [v |-> "dict", items |-> <<1>>]
    ELSE scan_table(Tail(rows))

collect_clinicaltables(snp_id, resp) ==
    IF Raises(resp, TRUE) THEN NONE
    ELSE IF resp.body.t = "table" THEN scan_table(resp.body.items)
    ELSE NONE

\* "search_ids": esearchresult.idlist is non-empty; "search_noids": it is empty
NcbiSearchBodies ==
    CommonBodies \cup { [t |-> "search_ids", items |-> <<1>>],
                        [t |-> "search_noids", items |-> <<>>] }

\* "summary_entry": result holds the id, items are the entry's own fields;
\* "summary_noentry": result lacks the id
NcbiSummaryBodies ==
    CommonBodies \cup { [t |-> "summary_entry", items |-> <<1>>],
                        [t |-> "summary_entry", items |-> <<>>],
                        [t |-> "summary_noentry", items |-> <<>>] }

NcbiSearchResponses == TransportErrors \cup Http(NcbiSearchBodies)

NcbiSummaryResponses == TransportErrors \cup Http(NcbiSummaryBodies)

\* whether the search step gets as far as issuing the summary request
ncbi_gene_found(search) == ~Raises(search, TRUE) /\ search.body.t = "search_ids"

collect_ncbi_gene(gene_symbol, search, summary) ==
    IF ~ncbi_gene_found(search) THEN NONE
    ELSE IF Raises(summary, TRUE) THEN NONE
    ELSE IF summary.body.t = "summary_entry"
         THEN [v |-> "dict", items |-> summary.body.items]
         ELSE NONE

\* the id parameter of the esummary request
ncbi_snp_id(snp_id) == replace_all(lower(snp_id), <<"r", "s">>)

collect_ncbi_snp(snp_id, resp) ==
    IF Raises(resp, TRUE) THEN NONE
    ELSE IF resp.body.t = "summary_entry"
         THEN [v |-> "dict", items |-> resp.body.items]
         ELSE NONE

\* "results": the value under results is an array, one item per entry, 0 for
\* an empty record and 1 for a record with fields; "results_str": that value
\* is a string, items are its characters
UniprotBodies ==
    CommonBodies \cup { [t |-> "results", items |-> <<>>],
                        [t |-> "results", items |-> <<1>>],
                        [t |-> "results", items |-> <<0>>],
                        [t |-> "results", items |-> <<0, 1>>],
                        [t |-> "results_str", items |-> <<>>],
                        [t |-> "results_str", items |-> <<1, 2>>] }

UniprotResponses == TransportErrors \cup Http(UniprotBodies)

\* data["results"][0]: the first entry, whatever it is
collect_uniprot(gene_symbol, resp) ==
    IF Raises(resp, TRUE) THEN NONE
    ELSE IF resp.body.t = "results" /\ Len(resp.body.items) > 0
         THEN [v |-> "dict",
               items |-> IF Head(resp.body.items) = 0 THEN <<>> ELSE <<1>>]
    ELSE IF resp.body.t = "results_str" /\ Len(resp.body.items) > 0
         THEN [v |-> "str", items |-> <<Head(resp.body.items)>>]
    ELSE NONE

-----------------------------------------------------------------------------
(* Summary Collaborator *)

\* os.getenv: None when the variable is unset
ApiKeys == {"None", "key"}

\* what the genai library does: the constructor raises, generate_content
\* raises, or a response arrives whose .text is a str or None
SummaryOutcomes == {"client_error", "call_error", "text", "no_text"}

ai_summary(api, outcome) ==
    IF api \in {"None", ""} THEN [raised |-> FALSE, value |-> "api key issue"]
    ELSE IF outcome = "client_error" THEN [raised |-> TRUE, value |-> "None"]
    ELSE IF outcome = "call_error"
         THEN [raised |-> FALSE, value |-> "error generating summary"]
    ELSE IF outcome = "text" THEN [raised |-> FALSE, value |-> "text"]
    ELSE [raised |-> FALSE, value |-> "None"]


-----------------------------------------------------------------------------
(* Collection Orchestrator: the BioinfoAgent instance and its heap *)

Clients == {"myvariant", "clinicaltables", "ensembl_vep", "ncbi_dbsnp",
            "ensembl_gene", "ensembl_variants", "ncbi_gene", "uniprot"}

Slots == {1, 2}

\* the {} that __init__ assigns to self.collected_data
EmptyDict == [query |-> NoString, type |-> "None", sources |-> <<>>]

\* a slot no reference names
Free == [query |-> NoString, type |-> "free", sources |-> <<>>]

NotCalled == [v |-> "not_called", items |-> <<>>]

NoResult == [status |-> "none"]

NoExchange == [client |-> "none", exchanges |-> <<>>]

\* variant: the kind test of the branch is inverted
next_step_inverted(client, query_type, truthy) ==
    CASE client = "myvariant" ->
             IF query_type = "snp" THEN "ensembl_gene" ELSE "clinicaltables"
      [] client = "clinicaltables" -> "ensembl_vep"
      [] client = "ensembl_vep" -> "ncbi_dbsnp"
      [] client = "ncbi_dbsnp" -> "collected"
      [] client = "ensembl_gene" ->
             IF truthy THEN "ensembl_variants" ELSE "ncbi_gene"
      [] client = "ensembl_variants" -> "ncbi_gene"
      [] client = "ncbi_gene" -> "uniprot"
      [] client = "uniprot" -> "collected"

\* variant: the variant-effect client is called before the clinical-terms one
next_step_reordered(client, query_type, truthy) ==
    CASE client = "myvariant" ->
             IF query_type = "snp" THEN "ensembl_vep" ELSE "ensembl_gene"
      [] client = "ensembl_vep" -> "clinicaltables"
      [] client = "clinicaltables" -> "ncbi_dbsnp"
      [] client = "ncbi_dbsnp" -> "collected"
      [] client = "ensembl_gene" ->
             IF truthy THEN "ensembl_variants" ELSE "ncbi_gene"
      [] client = "ensembl_variants" -> "ncbi_gene"
      [] client = "ncbi_gene" -> "uniprot"
      [] client = "uniprot" -> "collected"

\* the order of the client calls in collect_all_data: what follows `client`
next_step(client, query_type, truthy) ==
    CASE client = "myvariant" ->
             IF query_type = "snp" THEN "clinicaltables" ELSE "ensembl_gene"
      [] client = "clinicaltables" -> "ensembl_vep"
      [] client = "ensembl_vep" -> "ncbi_dbsnp"
      [] client = "ncbi_dbsnp" -> "collected"
      [] client = "ensembl_gene" ->
             IF truthy THEN "ensembl_variants" ELSE "ncbi_gene"
      [] client = "ensembl_variants" -> "ncbi_gene"
      [] client = "ncbi_gene" -> "uniprot"
      [] client = "uniprot" -> "collected"

\* d[key] = data on an insertion-ordered dict
dict_set(d, key, data) ==
    IF \E i \in 1..Len(d) : d[i].key = key
    THEN [i \in 1..Len(d) |->
             IF d[i].key = key THEN [key |-> key, data |-> data] ELSE d[i]]
    ELSE Append(d, [key |-> key, data |-> data])

\* list(d.keys())
keys(d) == [i \in 1..Len(d) |-> d[i].key]

KeySet(d) == {d[i].key : i \in 1..Len(d)}

\* variant: the sources of the previous invocation are kept
new_collected_data_keeping(query, query_type, old) ==
    [query |-> query, type |-> query_type, sources |-> old.sources]

\* the dict literal collect_all_data assigns to self.collected_data
new_collected_data(query, query_type, old) ==
    [query |-> query, type |-> query_type, sources |-> <<>>]

\* where that new dict lives: never in a slot a live reference names
fresh_slot(current, kept) == CHOOSE s \in Slots : s # kept

\* variant: `if data is not None:`
record_source_not_none(h, slot, key, data) ==
    IF data.v # "None"
    THEN [h EXCEPT ![slot].sources = dict_set(@, key, data)]
    ELSE h

\* `if data: self.collected_data["sources"][key] = data`
record_source(h, slot, key, data) ==
    IF Truthy(data)
    THEN [h EXCEPT ![slot].sources = dict_set(@, key, data)]
    ELSE h

\* the value stored under ensembl_variants
variants_entry(variants) ==
    [count |-> Len(variants.items),
     sample |-> slice_to(variants.items, SampleLimit)]

Init ==
    /\ pc = "idle"
    /\ raw = NoString
    /\ GOOGLE_API \in ApiKeys
    /\ self_query = NoString
    /\ self_query_type = "None"
    /\ self_collected = 1
    /\ heap = [s \in Slots |-> IF s = 1 THEN EmptyDict ELSE Free]
    /\ ensembl_gene = NONE
    /\ returned = [c \in Clients |-> NotCalled]
    /\ last_http = NoExchange
    /\ last_request = NoString
    /\ result = NoResult
    /\ held = 0
    /\ held_snapshot = Free

\* run(query) up to collect_all_data's first client call
Run(q) ==
    /\ pc = "idle"
    /\ LET query == lower(strip(q))
           slot == fresh_slot(self_collected, held)
           released == IF self_collected # held /\ self_collected # slot
                       THEN [heap EXCEPT ![self_collected] = Free]
                       ELSE heap
       IN /\ raw' = q
          /\ self_query' = query
          /\ self_query_type' = classify_input(query)
          /\ self_collected' = slot
          /\ heap' = [released EXCEPT ![slot] =
                         new_collected_data(query, classify_input(query),
                                            heap[self_collected])]
    /\ pc' = "myvariant"
    /\ ensembl_gene' = NONE
    /\ returned' = [c \in Clients |-> NotCalled]
    /\ last_http' = NoExchange
    /\ last_request' = NoString
    /\ result' = NoResult
    /\ UNCHANGED <<GOOGLE_API, held, held_snapshot>>

\* the part of a client step every client shares
Step(client, data, exchanges, request) ==
    /\ pc = client
    /\ heap' = record_source(heap, self_collected, client, data)
    /\ returned' = [returned EXCEPT ![client] = data]
    /\ last_http' = [client |-> client, exchanges |-> exchanges]
    /\ last_request' = request
    /\ pc' = next_step(client, self_query_type, Truthy(data))
    /\ UNCHANGED <<raw, GOOGLE_API, self_query, self_query_type,
                   self_collected, result, held, held_snapshot>>

CallMyVariant(resp) ==
    /\ Step("myvariant",
            collect_myvariant(self_query, self_query_type, resp),
            <<resp>>, self_query)
    /\ UNCHANGED ensembl_gene

CallClinicalTables(resp) ==
    /\ Step("clinicaltables", collect_clinicaltables(self_query, resp),
            <<resp>>, self_query)
    /\ UNCHANGED ensembl_gene

CallEnsemblVep(resp) ==
    /\ Step("ensembl_vep", collect_ensembl_vep(self_query, resp),
            <<resp>>, self_query)
    /\ UNCHANGED ensembl_gene

CallNcbiSnp(resp) ==
    /\ Step("ncbi_dbsnp", collect_ncbi_snp(self_query, resp),
            <<resp>>, ncbi_snp_id(self_query))
    /\ UNCHANGED ensembl_gene

CallEnsemblGene(resp) ==
    LET data == collect_ensembl_gene(self_query, resp) IN
    /\ Step("ensembl_gene", data, <<resp>>, self_query)
    /\ ensembl_gene' = data

CallEnsemblVariants(resp) ==
    LET variants == collect_ensembl_variants(ensembl_gene, resp) IN
    /\ pc = "ensembl_variants"
    /\ heap' = IF Truthy(variants)
               THEN [heap EXCEPT ![self_collected].sources =
                        dict_set(@, "ensembl_variants", variants_entry(variants))]
               ELSE heap
    /\ returned' = [returned EXCEPT !["ensembl_variants"] = variants]
    /\ last_http' = [client |-> "ensembl_variants",
                     exchanges |-> IF ensembl_variants_requests(ensembl_gene)
                                   THEN <<resp>> ELSE <<>>]
    /\ last_request' = IF ensembl_variants_requests(ensembl_gene)
                       THEN overlap_region(ensembl_gene) ELSE NoString
    /\ pc' = next_step("ensembl_variants", self_query_type, Truthy(variants))
    /\ UNCHANGED <<raw, GOOGLE_API, self_query, self_query_type,
                   self_collected, result, held, held_snapshot, ensembl_gene>>

CallNcbiGene(search, summary) ==
    /\ Step("ncbi_gene", collect_ncbi_gene(self_query, search, summary),
            IF ncbi_gene_found(search) THEN <<search, summary>> ELSE <<search>>,
            self_query)
    /\ UNCHANGED ensembl_gene

CallUniprot(resp) ==
    /\ Step("uniprot", collect_uniprot(self_query, resp),
            <<resp>>, self_query)
    /\ UNCHANGED ensembl_gene

\* run after collect_all_data returned: ai_summary, then the payload
Summarise(outcome) ==
    /\ pc = "collected"
    /\ LET summary == ai_summary(GOOGLE_API, outcome) IN
         result' = IF summary.raised
                   THEN [status |-> "raised"]
                   ELSE [status |-> "returned",
                         query |-> raw,
                         type |-> heap[self_collected].type,
                         data_sources_used |-> keys(heap[self_collected].sources),
                         raw_data |-> self_collected,
                         ai_summary |-> summary.value]
    /\ pc' = "idle"
    /\ ensembl_gene' = NONE
    /\ returned' = [c \in Clients |-> NotCalled]
    /\ last_http' = NoExchange
    /\ last_request' = NoString
    /\ UNCHANGED <<raw, GOOGLE_API, self_query, self_query_type, self_collected,
                   heap, held, held_snapshot>>

\* the caller keeps the aggregate a finished call built (run's raw_data and
\* collect_all_data's return value are that same dict)
Keep ==
    /\ pc = "idle"
    /\ result # NoResult
    /\ held # self_collected
    /\ held' = self_collected
    /\ held_snapshot' = heap[self_collected]
    /\ heap' = IF held # 0 THEN [heap EXCEPT ![held] = Free] ELSE heap
    /\ UNCHANGED <<pc, raw, GOOGLE_API, self_query, self_query_type,
                   self_collected, ensembl_gene, returned, last_http,
                   last_request, result>>

Next ==
    \/ \E q \in SampleQueries : Run(q)
    \/ \E r \in MyVariantResponses : CallMyVariant(r)
    \/ \E r \in ClinicalTablesResponses : CallClinicalTables(r)
    \/ \E r \in EnsemblVepResponses : CallEnsemblVep(r)
    \/ \E r \in NcbiSummaryResponses : CallNcbiSnp(r)
    \/ \E r \in EnsemblGeneResponses : CallEnsemblGene(r)
    \/ \E r \in EnsemblVariantsResponses : CallEnsemblVariants(r)
    \/ \E r1 \in NcbiSearchResponses, r2 \in NcbiSummaryResponses :
           CallNcbiGene(r1, r2)
    \/ \E r \in UniprotResponses : CallUniprot(r)
    \/ \E o \in SummaryOutcomes : Summarise(o)

Spec == Init /\ [][Next]_vars

(* A session on one agent whose caller keeps an aggregate it was handed.    *)
(* Every request either fails to connect or is answered 2xx with data.      *)

Decisive(responses) ==
    { r \in responses :
        \/ r.kind = "conn_error"
        \/ /\ r.kind = "http" /\ Success(r) /\ r.body.items # <<>>
           /\ r.body.t \in {"obj", "list", "table", "search_ids",
                           "summary_entry", "results"} }

NextSession ==
    \/ \E q \in SampleQueries : Run(q)
    \/ \E r \in Decisive(MyVariantResponses) : CallMyVariant(r)
    \/ \E r \in Decisive(ClinicalTablesResponses) : CallClinicalTables(r)
    \/ \E r \in Decisive(EnsemblVepResponses) : CallEnsemblVep(r)
    \/ \E r \in Decisive(NcbiSummaryResponses) : CallNcbiSnp(r)
    \/ \E r \in Decisive(EnsemblGeneResponses) : CallEnsemblGene(r)
    \/ \E r \in Decisive(EnsemblVariantsResponses) : CallEnsemblVariants(r)
    \/ \E r1 \in Decisive(NcbiSearchResponses),
          r2 \in Decisive(NcbiSummaryResponses) : CallNcbiGene(r1, r2)
    \/ \E r \in Decisive(UniprotResponses) : CallUniprot(r)
    \/ \E o \in SummaryOutcomes : Summarise(o)
    \/ Keep

SpecSession == Init /\ [][NextSession]_vars

(* A fresh agent, any query string, every request ending in a transport     *)
(* error (requests.get raises): the region client is never reached.         *)

FirstRun == self_query = NoString /\ \E q \in Strings : Run(q)

NextOffline ==
    \/ FirstRun
    \/ \E r \in TransportErrors : CallMyVariant(r)
    \/ \E r \in TransportErrors : CallClinicalTables(r)
    \/ \E r \in TransportErrors : CallEnsemblVep(r)
    \/ \E r \in TransportErrors : CallNcbiSnp(r)
    \/ \E r \in TransportErrors : CallEnsemblGene(r)
    \/ \E r1 \in TransportErrors, r2 \in TransportErrors : CallNcbiGene(r1, r2)
    \/ \E r \in TransportErrors : CallUniprot(r)
    \/ \E o \in SummaryOutcomes : Summarise(o)

SpecOffline == Init /\ [][NextOffline]_vars


-----------------------------------------------------------------------------
(* Properties *)

Agg == heap[self_collected]

Sources == Agg.sources

SnpOrder == <<"myvariant", "clinicaltables", "ensembl_vep", "ncbi_dbsnp">>

GeneOrder == <<"myvariant", "ensembl_gene", "ensembl_variants", "ncbi_gene",
               "uniprot">>

Range(f) == {f[i] : i \in DOMAIN f}

OrderOf(type) ==
    CASE type = "snp" -> SnpOrder [] type = "gene" -> GeneOrder [] OTHER -> <<>>

\* the members of `order` that satisfy `in`, in order
Filter(order, in) ==
    LET T(c) == c \in in IN SelectSeq(order, T)

\* s lists, without repetition, members of `order` in the order of `order`
IsOrderedSelection(s, order) == s = Filter(order, Range(s))

TransportFailed(x) == x.kind # "http" \/ ~Success(x)

IsAscii(s) == \A i \in 1..Len(s) : s[i] \notin {"U+00DF", "U+1E9E"}

\* the two characters 'rs' in any letter case lead s
HasRsPrefix(s) == Len(s) >= 2 /\ s[1] \in {"r", "R"} /\ s[2] \in {"s", "S"}

\* s without a leading "rs"
WithoutLeadingRs(s) ==
    IF startswith(s, <<"r", "s">>) THEN SubSeq(s, 3, Len(s)) ELSE s

\* C1: the keys of `sources` come from the source set of the classified kind
\* (snp: myvariant, clinicaltables, ensembl_vep, ncbi_dbsnp; gene: myvariant,
\* ensembl_gene, ensembl_variants, ncbi_gene, uniprot), keys of the two
\* kind-specific sets never occur together, and ensembl_variants occurs only
\* with ensembl_gene.
C1_SourcesWellFormed ==
    LET ks == KeySet(Sources) IN
    /\ Agg.type = "snp" => ks \subseteq Range(SnpOrder)
    /\ Agg.type = "gene" => ks \subseteq Range(GeneOrder)
    /\ Agg.type \notin {"snp", "gene"} => ks = {}
    /\ ~ /\ ks \cap (Range(SnpOrder) \ {"myvariant"}) # {}
         /\ ks \cap (Range(GeneOrder) \ {"myvariant"}) # {}
    /\ "ensembl_variants" \in ks => "ensembl_gene" \in ks

C1_Witness ==
    /\ pc = "collected"
    /\ Agg.type = "gene"
    /\ KeySet(Sources) = Range(GeneOrder)

\* C2: when every request of an invocation ends in a transport error,
\* collect_all_data returns an aggregate with the normalized query, the
\* classified kind and no source.
C2_FailSoft ==
    pc = "collected" =>
        /\ Sources = <<>>
        /\ Agg.query = lower(strip(raw))
        /\ Agg.type = classify_input(Agg.query)
        /\ Agg.type \in {"snp", "gene"}
        /\ \A c \in Clients : returned[c] \in {NONE, NotCalled}

C2_Witness ==
    /\ pc = "collected"
    /\ Agg.type = "gene"
    /\ Sources = <<>>
    /\ returned["uniprot"] = NONE
    /\ last_http.exchanges # <<>>
    /\ \A i \in 1..Len(last_http.exchanges) :
           last_http.exchanges[i].kind = "timeout"

\* C3 as stated: a source has its key exactly when its own client returned
\* something other than None, whatever the content.
C3_KeyIffNotNone ==
    pc = "collected" =>
        \A c \in Range(OrderOf(Agg.type)) :
            c \in KeySet(Sources) <=> returned[c].v \notin {"None", "not_called"}

\* C3 amended: a source has its key exactly when the value its own client
\* returned is truthy (not None and not empty), whatever the other clients
\* returned; ensembl_variants is attempted only after a truthy gene lookup.
C3_KeyIffTruthy ==
    pc = "collected" =>
        /\ \A c \in Range(OrderOf(Agg.type)) :
               /\ c \in KeySet(Sources) <=> Truthy(returned[c])
               /\ c # "ensembl_variants" => returned[c] # NotCalled
        /\ returned["ensembl_variants"] # NotCalled
               <=> Truthy(returned["ensembl_gene"])

C3_Witness ==
    /\ pc = "collected"
    /\ Agg.type = "snp"
    /\ returned["myvariant"] = NONE
    /\ returned["clinicaltables"] = NONE
    /\ returned["ensembl_vep"] = [v |-> "list", items |-> <<>>]
    /\ KeySet(Sources) = {"ncbi_dbsnp"}

\* C4: the keys of `sources` follow the fixed order of the kind's clients, the
\* payload's data_sources_used lists the keys of raw_data in that order, and
\* an snp query whose four clients all succeed yields exactly the four keys
\* myvariant, clinicaltables, ensembl_vep, ncbi_dbsnp.
C4_FixedOrder ==
    /\ pc = "collected" =>
           /\ IsOrderedSelection(keys(Sources), OrderOf(Agg.type))
           /\ (Agg.type = "snp" /\ \A c \in Range(SnpOrder) : Truthy(returned[c]))
                  => keys(Sources) = SnpOrder
    /\ result.status = "returned" =>
           /\ result.data_sources_used = keys(heap[result.raw_data].sources)
           /\ IsOrderedSelection(result.data_sources_used, OrderOf(result.type))

C4_Witness ==
    /\ result.status = "returned"
    /\ result.data_sources_used = SnpOrder
    /\ keys(heap[result.raw_data].sources) = SnpOrder

\* C5 as stated: a client whose request met a transport failure (connection
\* error, timeout or non-2xx status) leaves no key in `sources`.
C5_TransportFailureOmitsKey ==
    (\E i \in 1..Len(last_http.exchanges) :
         TransportFailed(last_http.exchanges[i]))
        => last_http.client \notin KeySet(Sources)

\* C6 as stated: ai_summary always hands run a string, the fixed one when no
\* credential is configured, and run never fails because of the summarizer.
C6_SummaryAlwaysString ==
    result # NoResult =>
        /\ result.status = "returned"
        /\ result.ai_summary # "None"
        /\ GOOGLE_API = "None" => result.ai_summary = "api key issue"

\* C7 as stated: classify_input is snp exactly when the trimmed query starts
\* with 'rs' in any letter case; the recorded type is classify_input of the
\* raw query and the recorded query is the trimmed, lower-cased text.
C7_ClassifyRaw ==
    pc # "idle" =>
        /\ classify_input(raw) = "snp" <=> HasRsPrefix(strip(raw))
        /\ Agg.type = classify_input(raw)
        /\ Agg.query = lower(strip(raw))

\* C7 amended: for a query of ASCII characters classify_input is snp exactly
\* when the trimmed query starts with 'rs' in any letter case, and the
\* recorded type is classify_input of the raw query; for every query the
\* recorded type is classify_input of the trimmed, lower-cased query, which
\* is the recorded query.
C7_ClassifyNormalized ==
    pc # "idle" =>
        /\ IsAscii(raw) =>
               /\ classify_input(raw) = "snp" <=> HasRsPrefix(strip(raw))
               /\ Agg.type = classify_input(raw)
        /\ Agg.type = classify_input(lower(strip(raw)))
        /\ Agg.query = lower(strip(raw))
        /\ self_query = Agg.query /\ self_query_type = Agg.type

C7_Witness ==
    /\ pc = "collected"
    /\ raw = <<" ", "R", "s">>
    /\ Agg.type = "snp"
    /\ Agg.query = <<"r", "s">>

\* C8: an aggregate the caller kept is not changed by later calls, and the
\* keys of a call's aggregate, in order, are those of the clients that
\* returned data in that very call, whatever earlier calls collected.
C8_NoCarryOver ==
    /\ held # 0 => heap[held] = held_snapshot
    /\ pc = "collected" =>
           /\ keys(Sources) =
                  Filter(OrderOf(Agg.type), {c \in Clients : Truthy(returned[c])})
           /\ Agg.query = lower(strip(raw))
           /\ Agg.type = classify_input(Agg.query)

C8_Witness ==
    /\ pc = "collected"
    /\ held # 0 /\ held # self_collected
    /\ held_snapshot.type = "snp" /\ Len(held_snapshot.sources) = 4
    /\ Agg.type = "gene"
    /\ keys(Sources) = <<"ensembl_gene", "uniprot">>

\* C9: the region client returns at most the first 10 features of the
\* overlap response, and an ensembl_variants entry has a sample of at most 10
\* entries whose number is its count.
C9_Truncation ==
    /\ Len(returned["ensembl_variants"].items) <= 10
    /\ (last_http.client = "ensembl_variants" /\ Truthy(returned["ensembl_variants"]))
           => returned["ensembl_variants"].items =
                  slice_to(last_http.exchanges[1].body.items, 10)
    /\ \A i \in 1..Len(Sources) :
           Sources[i].key = "ensembl_variants" =>
               /\ Len(Sources[i].data.sample) <= 10
               /\ Sources[i].data.count = Len(Sources[i].data.sample)
               /\ pc # "idle" =>
                      Sources[i].data.sample = returned["ensembl_variants"].items

C9_Witness ==
    /\ last_http.client = "ensembl_variants"
    /\ Len(last_http.exchanges[1].body.items) = MaxFeatures
    /\ \E i \in 1..Len(Sources) :
           /\ Sources[i].key = "ensembl_variants"
           /\ Sources[i].data.count = 10

\* C10 as stated: the SNP-summary client queries the lower-cased id with only
\* a leading 'rs' removed, and is unavailable when the response has no result
\* entry for that id.
C10_OnlyLeadingRsStripped ==
    last_http.client = "ncbi_dbsnp" =>
        /\ last_request = WithoutLeadingRs(lower(self_query))
        /\ last_http.exchanges[1].body.t # "summary_entry"
               => returned["ncbi_dbsnp"] = NONE

=============================================================================
